---- MODULE Spec2Model ----
(***************************************************************************)
(* Model of src/jeopardy.js: the Jeopardy board (global `categories`), the *)
(* table#jeopardy DOM it is rendered into, the #start control and the      *)
(* spinner, the click handler on the cells, and the asynchronous restart   *)
(* sequence setupAndStart with its two kinds of remote lookup.             *)
(***************************************************************************)
EXTENDS Integers, Sequences, FiniteSets, TLC

\* Grid dimensions.  The source writes them as the literals 6 (jeopardy.js
\* lines 33 and 81) and 5 (lines 53 and 79); every use of the literal reads
\* the same definition here, and the dimensions are scaled down so that the
\* boards the random sampling can produce can be enumerated.
NUM_CATEGORIES == 2
NUM_QUESTIONS_PER_CAT == 1

\* At most this many clues of one game get revealed by clicks.
MaxRevealed == 1

VARIABLES
    categories,     \* the global `categories` array (line 21)
    startText,      \* $("#start").text()
    startDisabled,  \* #start carries the class "disabled"
    spinShown,      \* #spin-container is shown
    thead,          \* rows of #jeopardy thead, each a sequence of <th> texts
    tbody,          \* rows of #jeopardy tbody, each a sequence of <td> cells
    tasks,          \* the setupAndStart invocations that have not returned
    apiCount,       \* how many categories the remote service has to list
    outcome         \* how the last handler or continuation ended

vars == <<categories, startText, startDisabled, spinShown, thead, tbody,
          tasks, apiCount, outcome>>

dom == <<startText, startDisabled, spinShown, thead, tbody>>

----------------------------------------------------------------------------
\* Values

NULL == "null"
UNDEFINED == <<"undefined">>
GLYPH == <<"i", 0, 0>>      \* the <i class="fas fa-question-circle fa-3x">

Min(a, b) == IF a < b THEN a ELSE b

Remove(s, i) == [j \in 1..(Len(s) - 1) |-> IF j < i THEN s[j] ELSE s[j + 1]]

----------------------------------------------------------------------------
\* The remote service (jservice.io)

\* The service lists at most this many categories.
MaxCands == NUM_CATEGORIES + 1

\* Category 1 has one clue more than a column shows, the last category one
\* fewer, every other category exactly as many.
RemoteClueCount(id) ==
    IF id = 1 THEN NUM_QUESTIONS_PER_CAT + 1
    ELSE IF id = MaxCands THEN NUM_QUESTIONS_PER_CAT - 1
    ELSE NUM_QUESTIONS_PER_CAT

\* response.data of GET /api/category?id=catId
RemoteCategory(id) ==
    [id |-> id,
     title |-> <<"title", id>>,
     clues |-> [k \in 1..RemoteClueCount(id) |->
                  [id |-> k,
                   question |-> <<"q", id, k>>,
                   answer |-> <<"a", id, k>>,
                   value |-> 100 * k]]]

\* response.data of GET /api/categories?count=100
RemoteCategories ==
    [i \in 1..apiCount |-> [id |-> i, title |-> <<"title", i>>]]

----------------------------------------------------------------------------
\* Pure helpers

\* A sampling with replacement: the positions may repeat.
SampleSize_WithReplacement(arr, n) ==
    LET m == IF n < Len(arr) THEN n ELSE Len(arr)
    IN {[i \in 1..m |-> arr[p[i]]] : p \in [1..m -> 1..Len(arr)]}

\* _.sampleSize(arr, n): min(n, arr.length) elements at pairwise different
\* positions of arr, in any order.
SampleSize(arr, n) ==
    LET m == Min(n, Len(arr))
        picks == {p \in [1..m -> 1..Len(arr)] :
                    \A i, j \in 1..m : i # j => p[i] # p[j]}
    IN {[i \in 1..m |-> arr[p[i]]] : p \in picks}

\* response.data.map((c) => c.id)
CatIdsOf(data) == [i \in 1..Len(data) |-> data[i].id]

\* .map((c) => ({question: c.question, answer: c.answer, showing: null}))
ProjectClues(clues) ==
    [i \in 1..Len(clues) |->
        [question |-> clues[i].question,
         answer |-> clues[i].answer,
         showing |-> NULL]]

DigitChars == <<"0", "1", "2", "3", "4", "5", "6", "7", "8", "9">>

RECURSIVE Digits(_)
\* the decimal digits of n, as `${n}` writes them
Digits(n) ==
    IF n < 10 THEN <<DigitChars[n + 1]>>
    ELSE Digits(n \div 10) \o <<DigitChars[(n % 10) + 1]>>

\* `${catIdx}-${clueIdx}`
CellId(catIdx, clueIdx) == Digits(catIdx) \o <<"-">> \o Digits(clueIdx)

RECURSIVE Split(_)
\* id.split("-")
Split(s) ==
    IF \A i \in 1..Len(s) : s[i] # "-" THEN <<s>>
    ELSE LET p == CHOOSE i \in 1..Len(s) :
                    s[i] = "-" /\ \A j \in 1..(i - 1) : s[j] # "-"
         IN <<SubSeq(s, 1, p - 1)>> \o Split(SubSeq(s, p + 1, Len(s)))

DigitValue(ch) == (CHOOSE d \in 1..10 : DigitChars[d] = ch) - 1

RECURSIVE NumberOf(_)
NumberOf(s) ==
    IF Len(s) = 0 THEN 0
    ELSE 10 * NumberOf(SubSeq(s, 1, Len(s) - 1)) + DigitValue(s[Len(s)])

\* Whether arr[key] is an element of the array arr for a string key: the key
\* is the canonical decimal form of an index below arr.length.  For any other
\* key (undefined included) arr[key] is undefined.
HasIndex(arr, key) ==
    /\ Len(key) > 0
    /\ \A i \in 1..Len(key) : \E d \in 1..10 : DigitChars[d] = key[i]
    /\ (Len(key) > 1 => key[1] # "0")
    /\ NumberOf(key) < Len(arr)

\* let [catId, clueId] = id.split("-")
Part(parts, n) == IF n <= Len(parts) THEN parts[n] ELSE UNDEFINED

\* Lines 102-108 for the id attribute of evt.target: "TypeError" when the
\* evaluation throws (id is undefined, categories[catId] is undefined, or
\* the clue is undefined and line 108 reads its .showing), "clue" when
\* categories[catId].clues[clueId] is a clue.
Resolve(cats, id) ==
    IF id = UNDEFINED THEN "TypeError"
    ELSE LET parts == Split(id)
         IN IF ~HasIndex(cats, Part(parts, 1)) THEN "TypeError"
            ELSE IF ~HasIndex(cats[NumberOf(Part(parts, 1)) + 1].clues, Part(parts, 2))
            THEN "TypeError"
            ELSE "clue"

\* The position in `categories` a cell id addresses: <<category, clue>>,
\* both counted from 1.
AddressOf(id) ==
    LET parts == Split(id)
    IN <<NumberOf(Part(parts, 1)) + 1, NumberOf(Part(parts, 2)) + 1>>

\* A handleClick whose first branch shows the answer at once.
ClickEffect_SkipsQuestion(clue) ==
    IF clue.showing = NULL
    THEN [ignored |-> FALSE, msg |-> clue.answer, showing |-> "answer",
          disable |-> TRUE]
    ELSE [ignored |-> TRUE, msg |-> UNDEFINED, showing |-> clue.showing,
          disable |-> FALSE]

\* A handleClick that leaves out $tgt.addClass("disabled").
ClickEffect_NoDisable(clue) ==
    IF clue.showing = NULL
    THEN [ignored |-> FALSE, msg |-> clue.question, showing |-> "question",
          disable |-> FALSE]
    ELSE IF clue.showing = "question"
    THEN [ignored |-> FALSE, msg |-> clue.answer, showing |-> "answer",
          disable |-> FALSE]
    ELSE [ignored |-> TRUE, msg |-> UNDEFINED, showing |-> clue.showing,
          disable |-> FALSE]

\* lines 108-117: what a click does to a clue
ClickEffect(clue) ==
    IF clue.showing = NULL
    THEN [ignored |-> FALSE, msg |-> clue.question, showing |-> "question",
          disable |-> FALSE]
    ELSE IF clue.showing = "question"
    THEN [ignored |-> FALSE, msg |-> clue.answer, showing |-> "answer",
          disable |-> TRUE]
    ELSE [ignored |-> TRUE, msg |-> UNDEFINED, showing |-> clue.showing,
          disable |-> FALSE]

\* lines 72-75: the header row
HeaderRow(cats) == [c \in 1..Len(cats) |-> cats[c].title]

\* lines 83-85: a fresh cell
NewCell(catIdx, clueIdx) ==
    [id |-> CellId(catIdx, clueIdx), html |-> GLYPH, disabled |-> FALSE]

\* A row loop that runs one step too far (clueIdx <= 5).
BodyRows_ExtraRow ==
    [q \in 1..(NUM_QUESTIONS_PER_CAT + 1) |->
        [c \in 1..NUM_CATEGORIES |->
            [id |-> CellId(c - 1, q - 1), html |-> GLYPH, disabled |-> FALSE]]]

\* lines 79-89: the body rows
BodyRows ==
    [q \in 1..NUM_QUESTIONS_PER_CAT |->
        [c \in 1..NUM_CATEGORIES |-> NewCell(c - 1, q - 1)]]

\* A guard that never sees the loading label.
IsLoading_Never == FALSE

\* line 149
IsLoading == startText = "Loading..."

RevealedCount ==
    Cardinality({a \in (1..Len(categories)) \X (1..(NUM_QUESTIONS_PER_CAT + 1)) :
                    /\ a[2] <= Len(categories[a[1]].clues)
                    /\ categories[a[1]].clues[a[2]].showing # NULL})

----------------------------------------------------------------------------
\* The page as loaded, before any script has run: the start control is
\* enabled and not labelled "Loading...", the spinner is hidden, the table
\* is empty.
InitialPage ==
    /\ startText = "Start!"
    /\ startDisabled = FALSE
    /\ spinShown = FALSE
    /\ thead = <<>>
    /\ tbody = <<>>

Init ==
    /\ categories = <<>>
    /\ InitialPage
    /\ tasks = <<>>
    /\ apiCount \in 0..MaxCands
    /\ outcome = "none"

\* A showLoadingView that leaves the body rows of the last game in place.
ShowLoadingView_KeepsBody ==
    /\ thead' = <<>>
    /\ tbody' = tbody
    /\ spinShown' = TRUE
    /\ startDisabled' = TRUE
    /\ startText' = "Loading..."

\* showLoadingView()
ShowLoadingView ==
    /\ thead' = <<>>
    /\ tbody' = <<>>
    /\ spinShown' = TRUE
    /\ startDisabled' = TRUE
    /\ startText' = "Loading..."

\* A hideLoadingView that leaves the spinner on.
HideLoadingView_KeepsSpinner ==
    /\ startDisabled' = FALSE
    /\ startText' = "Restart!"
    /\ spinShown' = spinShown

\* hideLoadingView()
HideLoadingView ==
    /\ startDisabled' = FALSE
    /\ startText' = "Restart!"
    /\ spinShown' = FALSE

\* A fillTable that leaves out the hideLoadingView() call.
FillTable_NoHide(cats) ==
    /\ UNCHANGED <<startText, startDisabled, spinShown>>
    /\ thead' = Append(thead, HeaderRow(cats))
    /\ tbody' = BodyRows

\* fillTable(), run with `categories` holding cats
FillTable(cats) ==
    /\ HideLoadingView
    /\ thead' = Append(thead, HeaderRow(cats))
    /\ tbody' = BodyRows

\* A click on #start: setupAndStart up to its first await.
SetupAndStart ==
    IF ~IsLoading
    THEN /\ ShowLoadingView
         /\ tasks' = Append(tasks, [pc |-> "getCategoryIds", catIds |-> <<>>, idx |-> 0])
         /\ outcome' = "started"
         /\ UNCHANGED <<categories, apiCount>>
    ELSE /\ outcome' = "restart-ignored"
         /\ UNCHANGED <<categories, dom, tasks, apiCount>>

\* The category-list lookup of invocation t fails: the await throws and the
\* promise of setupAndStart is rejected.
GetCategoryIdsFails(t) ==
    /\ t \in DOMAIN tasks
    /\ tasks[t].pc = "getCategoryIds"
    /\ tasks' = [tasks EXCEPT ![t].pc = "rejected"]
    /\ outcome' = "rejected"
    /\ UNCHANGED <<categories, dom, apiCount>>

\* The category-list lookup of invocation t returns: lines 32-33, 156, and
\* the loop up to the first getCategory call (or fillTable when there is
\* nothing to loop over).
GetCategoryIdsReturns(t) ==
    /\ t \in DOMAIN tasks
    /\ tasks[t].pc = "getCategoryIds"
    /\ \E catIds \in SampleSize(CatIdsOf(RemoteCategories), NUM_CATEGORIES) :
         /\ categories' = <<>>
         /\ IF catIds = <<>>
            THEN /\ FillTable(<<>>)
                 /\ tasks' = Remove(tasks, t)
                 /\ outcome' = "rendered"
            ELSE /\ tasks' = [tasks EXCEPT ![t] =
                                [pc |-> "getCategory", catIds |-> catIds, idx |-> 1]]
                 /\ outcome' = "awaiting"
                 /\ UNCHANGED dom
    /\ UNCHANGED apiCount

\* A failure path that clears the loading view (as a finally block would).
GetCategoryFails_Recovers(t) ==
    /\ t \in DOMAIN tasks
    /\ tasks[t].pc = "getCategory"
    /\ tasks' = [tasks EXCEPT ![t].pc = "rejected"]
    /\ outcome' = "rejected"
    /\ startDisabled' = FALSE
    /\ startText' = "Restart!"
    /\ spinShown' = FALSE
    /\ UNCHANGED <<categories, thead, tbody, apiCount>>

\* A category-detail lookup of invocation t fails.
GetCategoryFails(t) ==
    /\ t \in DOMAIN tasks
    /\ tasks[t].pc = "getCategory"
    /\ tasks' = [tasks EXCEPT ![t].pc = "rejected"]
    /\ outcome' = "rejected"
    /\ UNCHANGED <<categories, dom, apiCount>>

\* A loop that puts each fetched category in front (unshift for push).
GetCategoryReturns_Prepends(t) ==
    /\ t \in DOMAIN tasks
    /\ tasks[t].pc = "getCategory"
    /\ LET cat == RemoteCategory(tasks[t].catIds[tasks[t].idx])
       IN \E randomClues \in SampleSize(ProjectClues(cat.clues), NUM_QUESTIONS_PER_CAT) :
            LET cats == <<[title |-> cat.title, clues |-> randomClues]>> \o categories
            IN /\ categories' = cats
               /\ IF tasks[t].idx = Len(tasks[t].catIds)
                  THEN /\ FillTable(cats)
                       /\ tasks' = Remove(tasks, t)
                       /\ outcome' = "rendered"
                  ELSE /\ tasks' = [tasks EXCEPT ![t].idx = @ + 1]
                       /\ outcome' = "awaiting"
                       /\ UNCHANGED dom
    /\ UNCHANGED apiCount

\* A loop with fillTable() inside its body: the grid is rendered after every
\* category.
GetCategoryReturns_RendersEachTime(t) ==
    /\ t \in DOMAIN tasks
    /\ tasks[t].pc = "getCategory"
    /\ LET cat == RemoteCategory(tasks[t].catIds[tasks[t].idx])
       IN \E randomClues \in SampleSize(ProjectClues(cat.clues), NUM_QUESTIONS_PER_CAT) :
            LET cats == Append(categories, [title |-> cat.title, clues |-> randomClues])
            IN /\ categories' = cats
               /\ HideLoadingView
               /\ thead' = <<HeaderRow(cats)>>
               /\ tbody' = BodyRows
               /\ IF tasks[t].idx = Len(tasks[t].catIds)
                  THEN /\ tasks' = Remove(tasks, t)
                       /\ outcome' = "rendered"
                  ELSE /\ tasks' = [tasks EXCEPT ![t].idx = @ + 1]
                       /\ outcome' = "awaiting"
    /\ UNCHANGED apiCount

\* A category-detail lookup of invocation t returns: lines 52-58, the push
\* of line 159, and then the next getCategory call or fillTable.
GetCategoryReturns(t) ==
    /\ t \in DOMAIN tasks
    /\ tasks[t].pc = "getCategory"
    /\ LET cat == RemoteCategory(tasks[t].catIds[tasks[t].idx])
       IN \E randomClues \in SampleSize(ProjectClues(cat.clues), NUM_QUESTIONS_PER_CAT) :
            LET cats == Append(categories, [title |-> cat.title, clues |-> randomClues])
            IN /\ categories' = cats
               /\ IF tasks[t].idx = Len(tasks[t].catIds)
                  THEN /\ FillTable(cats)
                       /\ tasks' = Remove(tasks, t)
                       /\ outcome' = "rendered"
                  ELSE /\ tasks' = [tasks EXCEPT ![t].idx = @ + 1]
                       /\ outcome' = "awaiting"
                       /\ UNCHANGED dom
    /\ UNCHANGED apiCount

\* A handleClick that restarts the game when an answered cell is clicked.
HandleClick_StartsLookup(r, k, part) ==
    /\ r \in DOMAIN tbody
    /\ k \in DOMAIN tbody[r]
    /\ part = "i" => tbody[r][k].html = GLYPH
    /\ LET id == IF part = "td" THEN tbody[r][k].id ELSE UNDEFINED
       IN IF Resolve(categories, id) = "TypeError"
          THEN /\ outcome' = "TypeError"
               /\ UNCHANGED <<categories, dom, tasks>>
          ELSE LET a == AddressOf(id)
                   clue == categories[a[1]].clues[a[2]]
                   eff == ClickEffect(clue)
               IN /\ clue.showing = NULL => RevealedCount < MaxRevealed
                  /\ categories' = [categories EXCEPT
                                      ![a[1]].clues[a[2]].showing = eff.showing]
                  /\ IF eff.ignored
                     THEN /\ outcome' = "started"
                          /\ ShowLoadingView
                          /\ tasks' = Append(tasks, [pc |-> "getCategoryIds",
                                                      catIds |-> <<>>, idx |-> 0])
                     ELSE /\ outcome' = "revealed"
                          /\ tbody' = [tbody EXCEPT ![r][k] =
                                         [id |-> @.id, html |-> eff.msg,
                                          disabled |-> @.disabled \/ eff.disable]]
                          /\ UNCHANGED <<startText, startDisabled, spinShown, thead, tasks>>
    /\ UNCHANGED apiCount

\* A handleClick that writes the text into every cell ($("td") for $tgt).
HandleClick_WritesAllCells(r, k, part) ==
    /\ r \in DOMAIN tbody
    /\ k \in DOMAIN tbody[r]
    /\ part = "i" => tbody[r][k].html = GLYPH
    /\ LET id == IF part = "td" THEN tbody[r][k].id ELSE UNDEFINED
       IN IF Resolve(categories, id) = "TypeError"
          THEN /\ outcome' = "TypeError"
               /\ UNCHANGED <<categories, dom>>
          ELSE LET a == AddressOf(id)
                   clue == categories[a[1]].clues[a[2]]
                   eff == ClickEffect(clue)
               IN /\ clue.showing = NULL => RevealedCount < MaxRevealed
                  /\ categories' = [categories EXCEPT
                                      ![a[1]].clues[a[2]].showing = eff.showing]
                  /\ IF eff.ignored
                     THEN /\ outcome' = "click-ignored"
                          /\ UNCHANGED tbody
                     ELSE /\ outcome' = "revealed"
                          /\ tbody' = [x \in DOMAIN tbody |-> [y \in DOMAIN tbody[x] |->
                                         [id |-> tbody[x][y].id, html |-> eff.msg,
                                          disabled |-> tbody[x][y].disabled \/ eff.disable]]]
                  /\ UNCHANGED <<startText, startDisabled, spinShown, thead>>
    /\ UNCHANGED <<tasks, apiCount>>

\* A click inside the cell at row r, column k of tbody, landing on the <td>
\* itself (part = "td") or on the <i> glyph it holds (part = "i"): the
\* delegated handler runs handleClick with that element as evt.target.
HandleClick(r, k, part) ==
    /\ r \in DOMAIN tbody
    /\ k \in DOMAIN tbody[r]
    /\ part = "i" => tbody[r][k].html = GLYPH
    /\ LET id == IF part = "td" THEN tbody[r][k].id ELSE UNDEFINED
       IN IF Resolve(categories, id) = "TypeError"
          THEN /\ outcome' = "TypeError"
               /\ UNCHANGED <<categories, dom>>
          ELSE LET a == AddressOf(id)
                   clue == categories[a[1]].clues[a[2]]
                   eff == ClickEffect(clue)
               IN /\ clue.showing = NULL => RevealedCount < MaxRevealed
                  /\ categories' = [categories EXCEPT
                                      ![a[1]].clues[a[2]].showing = eff.showing]
                  /\ IF eff.ignored
                     THEN /\ outcome' = "click-ignored"
                          /\ UNCHANGED tbody
                     ELSE /\ outcome' = "revealed"
                          /\ tbody' = [tbody EXCEPT ![r][k] =
                                         [id |-> @.id, html |-> eff.msg,
                                          disabled |-> @.disabled \/ eff.disable]]
                  /\ UNCHANGED <<startText, startDisabled, spinShown, thead>>
    /\ UNCHANGED <<tasks, apiCount>>

Click == \E r \in 1..NUM_QUESTIONS_PER_CAT, k \in 1..NUM_CATEGORIES, part \in {"td", "i"} :
            HandleClick(r, k, part)

IdsFail == \E t \in DOMAIN tasks : GetCategoryIdsFails(t)
IdsReturn == \E t \in DOMAIN tasks : GetCategoryIdsReturns(t)
CategoryFails == \E t \in DOMAIN tasks : GetCategoryFails(t)
CategoryReturns == \E t \in DOMAIN tasks : GetCategoryReturns(t)

Next ==
    \/ SetupAndStart
    \/ IdsFail
    \/ IdsReturn
    \/ CategoryFails
    \/ CategoryReturns
    \/ Click

Spec == Init /\ [][Next]_vars

\* The behaviours in which no remote lookup fails and every lookup returns:
\* the continuation of an await runs once its promise is fulfilled.
NextLive ==
    \/ SetupAndStart
    \/ IdsReturn
    \/ CategoryReturns
    \/ Click

LiveSpec ==
    /\ Init
    /\ [][NextLive]_vars
    /\ WF_vars(IdsReturn)
    /\ WF_vars(CategoryReturns)

----------------------------------------------------------------------------
\* State descriptions used by the properties

\* A fetch sequence is in flight: an invocation awaits a remote lookup.
Pending == \E t \in DOMAIN tasks : tasks[t].pc \in {"getCategoryIds", "getCategory"}

\* A remote call of a restart has failed.
Rejected == \E t \in DOMAIN tasks : tasks[t].pc = "rejected"

PendingCount ==
    Cardinality({t \in DOMAIN tasks : tasks[t].pc \in {"getCategoryIds", "getCategory"}})

Cells == {<<r, k>> \in (1..Len(tbody)) \X (1..(NUM_CATEGORIES + 1)) : k <= Len(tbody[r])}

CellCount == Cardinality(Cells)

BoardComplete ==
    /\ Len(categories) = NUM_CATEGORIES
    /\ \A c \in DOMAIN categories : Len(categories[c].clues) = NUM_QUESTIONS_PER_CAT

----------------------------------------------------------------------------
\* C1: across every step, a clue that stays in the Board keeps its showing
\* value or moves it one step along none -> question -> answer (never back,
\* never none -> answer), and it moves only in a click on the clue's own
\* cell.
C1_ShowingOnlyAdvances ==
    [][\A c \in DOMAIN categories : \A q \in DOMAIN categories[c].clues :
          (c \in DOMAIN categories' /\ q \in DOMAIN categories'[c].clues) =>
             LET from == categories[c].clues[q].showing
                 to == categories'[c].clues[q].showing
             IN /\ \/ to = from
                   \/ from = NULL /\ to = "question"
                   \/ from = "question" /\ to = "answer"
                /\ to # from =>
                     \E cell \in Cells :
                        /\ tbody[cell[1]][cell[2]].id = CellId(c - 1, q - 1)
                        /\ HandleClick(cell[1], cell[2], "td")]_vars

\* C1 witness: two clicks have taken a clue to the answer state.
C1_Witness ==
    \E c \in DOMAIN categories : \E q \in DOMAIN categories[c].clues :
        categories[c].clues[q].showing = "answer"

\* C2: at most one fetch sequence is in flight, and a restart trigger that
\* arrives while one is pending starts no lookup and changes neither the
\* Board nor the grid nor the controls.
C2_RestartIgnoredWhileLoading ==
    /\ [](PendingCount <= 1)
    /\ [][(Pending /\ SetupAndStart) => UNCHANGED <<categories, dom, tasks>>]_vars

\* C2 witness: a restart trigger was dropped while a fetch was pending.
C2_Witness == Pending /\ outcome = "restart-ignored"

\* C3: the step that completes a restart (the loading view is cleared)
\* leaves a grid of exactly NUM_QUESTIONS_PER_CAT rows of NUM_CATEGORIES
\* cells, every cell showing the glyph with no disabled marking, and every
\* clue of the Board with showing = none.
C3_FreshGridAfterRestart ==
    [][(startText = "Loading..." /\ startText' = "Restart!") =>
          /\ Len(tbody') = NUM_QUESTIONS_PER_CAT
          /\ \A r \in DOMAIN tbody' :
                /\ Len(tbody'[r]) = NUM_CATEGORIES
                /\ \A k \in DOMAIN tbody'[r] :
                      /\ tbody'[r][k].html = GLYPH
                      /\ tbody'[r][k].disabled = FALSE
          /\ \A c \in DOMAIN categories' : \A q \in DOMAIN categories'[c].clues :
                categories'[c].clues[q].showing = NULL]_vars

\* C3 witness: a restart has just completed with a full board.
C3_Witness == outcome = "rendered" /\ BoardComplete /\ CellCount = NUM_CATEGORIES * NUM_QUESTIONS_PER_CAT

\* C4: whenever a grid is rendered, the Board has NUM_CATEGORIES categories
\* and every category has NUM_QUESTIONS_PER_CAT clues.
C4_BoardHasFixedShape == tbody # <<>> => BoardComplete

\* C5: every rendered cell's id resolves to an existing clue of the Board,
\* the one at the cell's column (category) and row (clue), and different
\* cells resolve to different clues.
C5_CellsResolveToClues ==
    /\ \A cell \in Cells :
          /\ Resolve(categories, tbody[cell[1]][cell[2]].id) = "clue"
          /\ AddressOf(tbody[cell[1]][cell[2]].id) = <<cell[2], cell[1]>>
    /\ \A x, y \in Cells :
          x # y => AddressOf(tbody[x[1]][x[2]].id) # AddressOf(tbody[y[1]][y[2]].id)

\* C6: a restart whose category list is shorter than NUM_CATEGORIES, or one
\* of whose categories has fewer than NUM_QUESTIONS_PER_CAT clues, fails: the
\* short list is never iterated, the short category never enters the Board,
\* and the loading view is never cleared over an incomplete Board.
C6_ShortDataFailsRestart ==
    /\ \A t \in DOMAIN tasks :
          tasks[t].pc = "getCategory" => Len(tasks[t].catIds) = NUM_CATEGORIES
    /\ \A c \in DOMAIN categories : Len(categories[c].clues) = NUM_QUESTIONS_PER_CAT
    /\ startText = "Restart!" => BoardComplete

\* C7: once a remote call of a restart has failed, the control is labelled
\* "Loading..." and disabled, the spinner is shown, the grid is empty and no
\* lookup is in flight; and from then on no step starts a lookup or changes
\* the Board, the grid or the controls.
C7_FailureLeavesLoadingForever ==
    /\ [](Rejected =>
            /\ startText = "Loading..."
            /\ startDisabled
            /\ spinShown
            /\ thead = <<>>
            /\ tbody = <<>>
            /\ ~Pending)
    /\ [][Rejected => UNCHANGED <<categories, dom, tasks>>]_vars

\* C7 witness: after a failed remote call a later restart trigger was dropped.
C7_Witness == Rejected /\ ~Pending /\ outcome = "restart-ignored"

\* C8 as stated: the loading view (label, disabled marking, spinner) is on
\* exactly while a fetch sequence is pending, and once the first restart has
\* begun, whenever none is pending the control reads "Restart!", is enabled
\* and the spinner is hidden.
C8_LoadingViewIffPending ==
    /\ (startText = "Loading..." /\ startDisabled /\ spinShown) <=> Pending
    /\ (~Pending /\ outcome # "none") =>
          (startText = "Restart!" /\ ~startDisabled /\ ~spinShown)

\* C8 amended: the loading view is on exactly while a fetch sequence is
\* pending or has failed; once the first restart has begun, whenever none is
\* pending and none has failed the control reads "Restart!", is enabled and
\* the spinner is hidden.
C8_LoadingViewIffPendingOrFailed ==
    /\ (Pending \/ Rejected) => (startText = "Loading..." /\ startDisabled /\ spinShown)
    /\ (startText = "Loading..." \/ startDisabled \/ spinShown) => (Pending \/ Rejected)
    /\ (~Pending /\ ~Rejected /\ outcome # "none") =>
          (startText = "Restart!" /\ ~startDisabled /\ ~spinShown)

\* C8 witness: a restart has completed and cleared the loading view.
C8_Witness ==
    outcome = "rendered" /\ startText = "Restart!" /\ ~startDisabled /\ ~spinShown /\ ~Pending

\* C9: every rendered cell whose id resolves to a clue shows the glyph iff
\* the clue's showing is none, the question iff it is question, and the
\* answer with the disabled marking iff it is answer; a click on such a cell
\* shows the question of a hidden clue, shows the answer of a clue showing
\* its question and marks the cell disabled, and changes nothing for a clue
\* showing its answer.
C9_DisplayAgreesWithShowing ==
    /\ [](\A cell \in Cells :
            LET td == tbody[cell[1]][cell[2]]
            IN Resolve(categories, td.id) = "clue" =>
                 LET a == AddressOf(td.id)
                     clue == categories[a[1]].clues[a[2]]
                 IN /\ (td.html = GLYPH) <=> (clue.showing = NULL)
                    /\ (td.html = clue.question) <=> (clue.showing = "question")
                    /\ (td.html = clue.answer /\ td.disabled) <=> (clue.showing = "answer")
                    /\ td.disabled => clue.showing = "answer")
    /\ [][\A cell \in Cells :
            LET td == tbody[cell[1]][cell[2]]
            IN (/\ outcome' # "TypeError"
                /\ Resolve(categories, td.id) = "clue"
                /\ HandleClick(cell[1], cell[2], "td")) =>
                 LET a == AddressOf(td.id)
                     clue == categories[a[1]].clues[a[2]]
                     td2 == tbody'[cell[1]][cell[2]]
                     clue2 == categories'[a[1]].clues[a[2]]
                 IN /\ clue.showing = NULL =>
                         (td2.html = clue.question /\ clue2.showing = "question" /\ ~td2.disabled)
                    /\ clue.showing = "question" =>
                         (td2.html = clue.answer /\ clue2.showing = "answer" /\ td2.disabled)
                    /\ clue.showing = "answer" => UNCHANGED <<categories, dom>>]_vars

\* C9 witness: a cell shows its clue's answer, disabled, and a third click
\* on it has been ignored.
C9_Witness ==
    /\ outcome = "click-ignored"
    /\ \E cell \in Cells :
          LET td == tbody[cell[1]][cell[2]]
          IN /\ td.disabled
             /\ Resolve(categories, td.id) = "clue"
             /\ td.html = categories[AddressOf(td.id)[1]].clues[AddressOf(td.id)[2]].answer

ClickStep ==
    \E cell \in Cells : \E part \in {"td", "i"} : HandleClick(cell[1], cell[2], part)

\* C11: an invocation awaits one category-detail lookup at a time, the one
\* for the next selected identifier, with the categories fetched so far in the
\* Board in the order of the selected identifiers; and the step that renders
\* leaves a Board whose i-th category, and a header row whose i-th cell, is
\* the one fetched for the i-th selected identifier.
C11_FetchedInSelectionOrder ==
    /\ [](\A t \in DOMAIN tasks :
            tasks[t].pc = "getCategory" =>
               /\ tasks[t].idx \in 1..Len(tasks[t].catIds)
               /\ Len(categories) = tasks[t].idx - 1
               /\ \A i \in 1..Len(categories) :
                     categories[i].title = RemoteCategory(tasks[t].catIds[i]).title)
    /\ [][\A t \in DOMAIN tasks :
            (tasks[t].pc = "getCategory" /\ startText' = "Restart!") =>
               /\ Len(categories') = Len(tasks[t].catIds)
               /\ \A i \in 1..Len(categories') :
                     categories'[i].title = RemoteCategory(tasks[t].catIds[i]).title
               /\ thead'[Len(thead')] =
                     [i \in 1..Len(tasks[t].catIds) |->
                         RemoteCategory(tasks[t].catIds[i]).title]]_vars

\* C11 witness: a rendered Board whose first category is remote category 2
\* and whose second is remote category 1, the order they were selected in.
C11_Witness ==
    /\ outcome = "rendered"
    /\ Len(categories) = NUM_CATEGORIES
    /\ categories[1].title = RemoteCategory(2).title
    /\ categories[2].title = RemoteCategory(1).title
    /\ thead = <<HeaderRow(categories)>>

\* C12: while a fetch sequence is pending or has failed the grid holds no
\* cell, no click handler can run, and no step changes the showing of a clue
\* or the loading view.
C12_NoClicksWhileLoading ==
    /\ []((Pending \/ Rejected) => (tbody = <<>> /\ Cells = {}))
    /\ [][(Pending \/ Rejected) =>
            /\ ~ClickStep
            /\ \A c \in DOMAIN categories : \A q \in DOMAIN categories[c].clues :
                  (c \in DOMAIN categories' /\ q \in DOMAIN categories'[c].clues) =>
                     categories'[c].clues[q].showing = categories[c].clues[q].showing
            /\ (Pending' \/ Rejected') =>
                  UNCHANGED <<startText, startDisabled, spinShown>>]_vars

\* C12 witness: a fetch is pending while the Board of the previous game,
\* with a revealed clue, is still in `categories`.
C12_Witness ==
    /\ Pending
    /\ \E c \in DOMAIN categories : \E q \in DOMAIN categories[c].clues :
          categories[c].clues[q].showing # NULL

\* C13: a click on a cell starts no remote lookup and leaves the invocations
\* as they are; a lookup comes to be in flight, when none was, only by a
\* restart trigger accepted while not loading.
C13_ClicksStartNoLookup ==
    /\ [][ClickStep => (tasks' = tasks /\ ~Pending')]_vars
    /\ [][(~Pending /\ Pending') => (~IsLoading /\ SetupAndStart)]_vars

\* C13 witness: a click has revealed a clue and no invocation exists.
C13_Witness == outcome = "revealed" /\ tasks = <<>>

\* C14: a click in a cell leaves the header, the loading view, the
\* invocations, and the titles and texts of the Board as they are; a click
\* that does not throw changes at most the showing of the clue its cell
\* addresses and the display of that cell, every other clue and cell staying
\* as it is; and a click on a cell whose clue shows its answer changes
\* nothing.
C14_ClickFrame ==
    [][\A cell \in Cells : \A part \in {"td", "i"} :
         HandleClick(cell[1], cell[2], part) =>
            /\ UNCHANGED <<startText, startDisabled, spinShown, thead, tasks>>
            /\ DOMAIN tbody' = DOMAIN tbody
            /\ Len(categories') = Len(categories)
            /\ \A c \in DOMAIN categories :
                  /\ categories'[c].title = categories[c].title
                  /\ Len(categories'[c].clues) = Len(categories[c].clues)
                  /\ \A q \in DOMAIN categories[c].clues :
                        /\ categories'[c].clues[q].question = categories[c].clues[q].question
                        /\ categories'[c].clues[q].answer = categories[c].clues[q].answer
            /\ outcome' = "TypeError" => UNCHANGED <<categories, dom>>
            /\ outcome' # "TypeError" =>
                  LET a == AddressOf(tbody[cell[1]][cell[2]].id)
                  IN /\ \A x \in Cells : x # cell => tbody'[x[1]][x[2]] = tbody[x[1]][x[2]]
                     /\ tbody'[cell[1]][cell[2]].id = tbody[cell[1]][cell[2]].id
                     /\ \A c \in DOMAIN categories : \A q \in DOMAIN categories[c].clues :
                           <<c, q>> # a =>
                              categories'[c].clues[q].showing = categories[c].clues[q].showing
                     /\ categories[a[1]].clues[a[2]].showing = "answer" =>
                           UNCHANGED <<categories, dom, tasks>>]_vars

\* C14 witness: a click has revealed one clue while another cell of the full
\* grid still shows the glyph.
C14_Witness ==
    /\ outcome = "revealed"
    /\ BoardComplete
    /\ \E x, y \in Cells : tbody[x[1]][x[2]].html # GLYPH /\ tbody[y[1]][y[2]].html = GLYPH

\* C15 as stated: the Board never holds only some of the categories of a
\* restart: once the identifiers of a restart are selected, `categories` is
\* empty or holds one category for each of them.
C15_BoardNeverPartial ==
    \A t \in DOMAIN tasks :
        tasks[t].catIds # <<>> =>
           (Len(categories) = 0 \/ Len(categories) = Len(tasks[t].catIds))

\* C15 amended: the Board is built in place, one category per returned
\* lookup, so `categories` holds the first idx - 1 categories of the restart
\* while its idx-th lookup is pending or has failed; but whenever an
\* invocation is pending or has failed the grid and header are empty, so a
\* partial Board is never rendered, and the step that renders leaves one
\* category for every selected identifier.
C15_PartialBoardNeverRendered ==
    /\ [](\A t \in DOMAIN tasks :
            /\ tbody = <<>>
            /\ thead = <<>>
            /\ tasks[t].catIds # <<>> => Len(categories) = tasks[t].idx - 1)
    /\ [][\A t \in DOMAIN tasks :
            (tbody = <<>> /\ tbody' # <<>>) =>
               Len(categories') = Len(tasks[t].catIds)]_vars

\* C15 witness: a category-detail lookup has failed part-way, leaving some
\* but not all categories of the restart in `categories`.
C15_Witness ==
    \E t \in DOMAIN tasks :
        /\ tasks[t].pc = "rejected"
        /\ Len(categories) > 0
        /\ Len(categories) < Len(tasks[t].catIds)

\* C16: when no lookup fails and every lookup returns, a pending restart
\* leads to a state with the grid rendered, the control labelled "Restart!"
\* and enabled, the spinner hidden and nothing pending, where the next
\* restart trigger is accepted.
C16_RestartCompletes ==
    Pending ~> (/\ ~Pending
                /\ Len(tbody) = NUM_QUESTIONS_PER_CAT
                /\ startText = "Restart!"
                /\ ~startDisabled
                /\ ~spinShown
                /\ ~IsLoading)

\* C16 witness: an accepted restart has run to its end: the grid and one
\* header row are rendered, no invocation is left, the control reads
\* "Restart!".
C16_Witness ==
    /\ outcome = "rendered"
    /\ tasks = <<>>
    /\ Len(tbody) = NUM_QUESTIONS_PER_CAT
    /\ Len(thead) = 1
    /\ startText = "Restart!"

\* C17: the header holds at most one row, and when a grid is rendered that
\* row has one cell per Board category, as many as every body row has cells.
C17_OneHeaderRowMatchingBody ==
    /\ Len(thead) <= 1
    /\ tbody # <<>> =>
          /\ Len(thead) = 1
          /\ Len(thead[1]) = Len(categories)
          /\ \A r \in DOMAIN tbody : Len(tbody[r]) = Len(thead[1])

\* C18: a click landing on the glyph of a hidden cell whose clue exists
\* advances the clue to question and shows the question, raising no error.
C18_GlyphClickReveals ==
    [][\A cell \in Cells :
          LET td == tbody[cell[1]][cell[2]]
          IN (/\ td.html = GLYPH
              /\ Resolve(categories, td.id) = "clue"
              /\ HandleClick(cell[1], cell[2], "i")) =>
                LET a == AddressOf(td.id)
                IN /\ outcome' # "TypeError"
                   /\ categories'[a[1]].clues[a[2]].showing = "question"
                   /\ tbody'[cell[1]][cell[2]].html = categories[a[1]].clues[a[2]].question]_vars

====
